---- MODULE Spec2Model ----
(***************************************************************************)
(* A model of the RAG SDK: the in-memory VectorStore (src/vector-store.ts), *)
(* the Retriever (src/retriever.ts), the chat route with its processor and *)
(* the collection processor of the example API.                            *)
(*                                                                         *)
(* Documents are objects owned by the caller; the store's Map holds        *)
(* references to them, and addDocuments writes the generated embedding     *)
(* into the caller's object.  The model therefore keeps a heap of document *)
(* objects and a Map of references.                                        *)
(*                                                                         *)
(* An async function runs without interruption from one await to the next, *)
(* so every action below runs a handler from one suspension point to the   *)
(* next one (or to its return).                                            *)
(***************************************************************************)
EXTENDS Integers, Sequences, FiniteSets, TLC

VARIABLES heap, store, calls, search, retr, chat, ing, chunks, web, stream,
          adapter, fmt

vars == <<heap, store, calls, search, retr, chat, ing, chunks, web, stream,
          adapter, fmt>>

\* the requests of the example API: one chat request, one collection request,
\* and one call of chunkText
apiVars == <<chat, ing, chunks>>

\* the request of the web example's route, a streamed generation, a call of
\* the embedding adapter and a call of formatContext
sdkVars == <<web, stream, adapter, fmt>>

\* the store, its callers and the Retriever
coreVars == <<heap, store, calls, search, retr>>

----------------------------------------------------------------------------
(* Bounds of the model.                                                    *)

\* longest document list handed to one addDocuments call
MaxBatch == 2
\* largest topK a search is called with
MaxTopK == 3
\* longest text a fetched page is cleaned to
MaxTextLen == 4
\* EMBEDDING_BATCH_SIZE, CHUNK_SIZE and CHUNK_OVERLAP of the collection
\* processor (100, 1000 and 200 in the source), cut to sizes a check can cover
EMBEDDING_BATCH_SIZE == 2
CHUNK_SIZE == 3
CHUNK_OVERLAP == 1
\* BATCH_SIZE of the embedding adapter (100 in the source), cut likewise
BATCH_SIZE == 2
\* longest list of texts handed to the embedding adapter
MaxTexts == 5
\* most requests a consumer leaves pending on a generator
MaxPending == 3
\* largest chunkSize chunkText is called with
MaxChunkSize == 4
\* length of the vectors the store's own embedding model returns
\* (stands for dimension = 1536 of OpenAIEmbeddingModel, cut to a small width)
GenDim == 3

----------------------------------------------------------------------------
(* Values.                                                                 *)

\* An optional value is a sequence of length at most one, the shape of the
\* destructuring  const [embedding] = ...  : <<>> is undefined.
Undefined == <<>>

Min(a, b) == IF a < b THEN a ELSE b

Max(a, b) == IF a < b THEN b ELSE a

Range(s) == {s[i] : i \in DOMAIN s}

\* the document objects the callers own: Document {id, content, embedding?}
Objs == {1, 2, 3, 4}

InitHeap ==
  (1 :> [id |-> "a", content |-> "A1", embedding |-> << <<1, 0>> >>]) @@
  (2 :> [id |-> "b", content |-> "B1", embedding |-> << <<0, 1>> >>]) @@
  (3 :> [id |-> "c", content |-> "C1", embedding |-> << <<9, 1>> >>]) @@
  (4 :> [id |-> "a", content |-> "A2", embedding |-> Undefined])

\* the document lists a caller passes: distinct objects, up to MaxBatch long
RECURSIVE ListsOfLen(_)
ListsOfLen(n) ==
  IF n = 0 THEN {<<>>}
  ELSE {Append(l, o) : l \in ListsOfLen(n - 1), o \in Objs}

DocLists ==
  {l \in UNION {ListsOfLen(n) : n \in 0..MaxBatch} :
     \A i, j \in DOMAIN l : i # j => l[i] # l[j]}

\* the query embeddings a search is called with
QueryEmbeddings == {<<1, 0>>, <<1, 0, 0>>}

----------------------------------------------------------------------------
(* Map<string, Document>: keys in insertion order, and the value of each.  *)

EmptyMap == [keys |-> <<>>, vals |-> <<>>]

MapHas(m, k) == \E i \in DOMAIN m.keys : m.keys[i] = k

MapIndex(m, k) == CHOOSE i \in DOMAIN m.keys : m.keys[i] = k

MapSize(m) == Len(m.keys)

MapGet(m, k) == m.vals[MapIndex(m, k)]

\* a set that appends an entry even when the key is present
MapSetAppend(m, k, v) ==
  [keys |-> Append(m.keys, k), vals |-> Append(m.vals, v)]

\* a set that leaves the value of a present key alone
MapSetKeepOld(m, k, v) ==
  IF MapHas(m, k) THEN m
  ELSE [keys |-> Append(m.keys, k), vals |-> Append(m.vals, v)]

\* a set that moves a present key to the end: delete, then set
MapSetMoveLast(m, k, v) ==
  LET keep == {i \in DOMAIN m.keys : m.keys[i] # k}
      Rest(xs) == SelectSeq([i \in DOMAIN xs |-> <<i, xs[i]>>],
                            LAMBDA e : e[1] \in keep)
  IN [keys |-> [i \in DOMAIN Rest(m.keys) |-> Rest(m.keys)[i][2]] \o <<k>>,
      vals |-> [i \in DOMAIN Rest(m.vals) |-> Rest(m.vals)[i][2]] \o <<v>>]

\* Map.prototype.set: an existing key keeps its place and gets the new value,
\* a new key is appended.
MapSet(m, k, v) ==
  IF MapHas(m, k)
    THEN [keys |-> m.keys, vals |-> [m.vals EXCEPT ![MapIndex(m, k)] = v]]
    ELSE [keys |-> Append(m.keys, k), vals |-> Append(m.vals, v)]

\* Array.from(map.values())
MapValues(m) == m.vals

\* Array.prototype.slice(0, end)
Slice0(xs, end) ==
  LET e == IF end < 0 THEN Max(Len(xs) + end, 0) ELSE Min(end, Len(xs))
  IN SubSeq(xs, 1, e)

----------------------------------------------------------------------------
(* OpenAIEmbeddingModel.generateEmbeddings of the store: one vector of     *)
(* length dimension per text, each component                               *)
(* Math.random() * (i + 1) * (text.length % 10): all zero when the length  *)
(* of the text is a multiple of ten, otherwise any non-negative numbers.   *)

ZeroVector == [i \in 1..GenDim |-> 0]

RampVector == [i \in 1..GenDim |-> i]

GenVectors == {ZeroVector, RampVector}

----------------------------------------------------------------------------
(* VectorStore.addDocuments                                                *)

\* one addDocuments call: pc is idle, await (suspended at generateEmbeddings for
\* document i) or done (the promise resolved).  lacking, repeat and before
\* record facts about the call: that some document came without an embedding,
\* that the call repeats the caller's previous call with the same list, and
\* then the store and heap as they were when the repeated call began.
Idle == [pc |-> "idle", docs |-> <<>>, i |-> 0, lacking |-> FALSE,
         repeat |-> FALSE, before |-> <<>>]

\* a loop without the test of doc.embedding: every document is set as it is
RECURSIVE RunLoopNoEmbed(_, _, _, _)
RunLoopNoEmbed(st, hp, docs, i) ==
  IF i > Len(docs) THEN [store |-> st, i |-> i, pc |-> "done"]
  ELSE RunLoopNoEmbed(MapSet(st, hp[docs[i]].id, docs[i]), hp, docs, i + 1)

\* a loop that sets a document into the Map before it awaits its embedding
RECURSIVE RunLoopSetFirst(_, _, _, _)
RunLoopSetFirst(st, hp, docs, i) ==
  IF i > Len(docs) THEN [store |-> st, i |-> i, pc |-> "done"]
  ELSE IF hp[docs[i]].embedding = Undefined
    THEN [store |-> MapSet(st, hp[docs[i]].id, docs[i]), i |-> i, pc |-> "await"]
    ELSE RunLoopSetFirst(MapSet(st, hp[docs[i]].id, docs[i]), hp, docs, i + 1)

\* a loop that keys the documents by their content
RECURSIVE RunLoopKeyByContent(_, _, _, _)
RunLoopKeyByContent(st, hp, docs, i) ==
  IF i > Len(docs) THEN [store |-> st, i |-> i, pc |-> "done"]
  ELSE IF hp[docs[i]].embedding = Undefined
    THEN [store |-> st, i |-> i, pc |-> "await"]
    ELSE RunLoopKeyByContent(MapSet(st, hp[docs[i]].content, docs[i]), hp, docs, i + 1)

\* a loop that asks the embedding model for every document
RunLoopEmbedAll(st, hp, docs, i) ==
  IF i > Len(docs) THEN [store |-> st, i |-> i, pc |-> "done"]
  ELSE [store |-> st, i |-> i, pc |-> "await"]

\* the for loop from document i on, up to the next await or to the end:
\* documents that carry an embedding are set into the Map one after another.
RECURSIVE RunLoop(_, _, _, _)
RunLoop(st, hp, docs, i) ==
  IF i > Len(docs) THEN [store |-> st, i |-> i, pc |-> "done"]
  ELSE IF hp[docs[i]].embedding = Undefined
    THEN [store |-> st, i |-> i, pc |-> "await"]
    ELSE RunLoop(MapSet(st, hp[docs[i]].id, docs[i]), hp, docs, i + 1)

\* addDocuments(documents) is called: it runs to its first await or returns.
AddDocumentsCall(p, documents) ==
  /\ calls[p].pc \in {"idle", "done"}
  /\ LET r == RunLoop(store, heap, documents, 1)
         again == calls[p].pc = "done" /\ calls[p].docs = documents
     IN /\ store' = r.store
        /\ calls' = [calls EXCEPT ![p] =
             [pc |-> r.pc, docs |-> documents, i |-> r.i,
              lacking |-> \E i \in DOMAIN documents :
                             heap[documents[i]].embedding = Undefined,
              repeat |-> again,
              before |-> IF again THEN <<store, heap>> ELSE <<>>]]
  /\ UNCHANGED <<heap, search, retr, apiVars, sdkVars>>

\* a resumed call that goes on with a Map of its own
EmbeddingResolvedOwnMap(p, embedding) ==
  /\ calls[p].pc = "await"
  /\ LET c == calls[p]
         doc == c.docs[c.i]
         hp == [heap EXCEPT ![doc].embedding = <<embedding>>]
         r == RunLoop(MapSet(EmptyMap, hp[doc].id, doc), hp, c.docs, c.i + 1)
     IN /\ heap' = hp
        /\ store' = r.store
        /\ calls' = [calls EXCEPT ![p].pc = r.pc, ![p].i = r.i]
  /\ UNCHANGED <<search, retr, apiVars, sdkVars>>

\* the awaited generateEmbeddings([doc.content]) resolves with one vector:
\* doc.embedding = embedding; this.store.set(doc.id, doc); then the loop goes on.
EmbeddingResolved(p, embedding) ==
  /\ calls[p].pc = "await"
  /\ LET c == calls[p]
         doc == c.docs[c.i]
         hp == [heap EXCEPT ![doc].embedding = <<embedding>>]
         r == RunLoop(MapSet(store, hp[doc].id, doc), hp, c.docs, c.i + 1)
     IN /\ heap' = hp
        /\ store' = r.store
        /\ calls' = [calls EXCEPT ![p].pc = r.pc, ![p].i = r.i]
  /\ UNCHANGED <<search, retr, apiVars, sdkVars>>

----------------------------------------------------------------------------
(* VectorStore.similaritySearch                                            *)

\* a search that ignores topK
similaritySearchAll(st, queryEmbedding, topK) == MapValues(st)

\* a search that keeps only the documents that score above zero against the
\* query (here: on the first component of the vectors)
similaritySearchThreshold(st, queryEmbedding, topK) ==
  Slice0(SelectSeq(MapValues(st),
                   LAMBDA o : /\ heap[o].embedding # Undefined
                              /\ Head(heap[o].embedding)[1] * queryEmbedding[1] > 0),
         topK)

\* the documents returned for (queryEmbedding, topK) on the Map st
similaritySearch(st, queryEmbedding, topK) == Slice0(MapValues(st), topK)

\* search records the last call a caller made to similaritySearch itself,
\* and whether an addDocuments call was suspended when it ran;
\* a call made by the Retriever is recorded in retr (searched, vectors, docs).
NoSearch == [called |-> FALSE, q |-> <<>>, topK |-> 0, docs |-> <<>>,
             outcome |-> "none", during |-> FALSE]

\* a search that takes the documents it returns out of the Map: splice for slice
SimilaritySearchSplice(queryEmbedding, topK) ==
  /\ search' = [called |-> TRUE, q |-> queryEmbedding, topK |-> topK,
                docs |-> similaritySearch(store, queryEmbedding, topK),
                outcome |-> "returned",
                during |-> \E p \in DOMAIN calls : calls[p].pc = "await"]
  /\ store' = [keys |-> SubSeq(store.keys, Min(topK, MapSize(store)) + 1, MapSize(store)),
               vals |-> SubSeq(store.vals, Min(topK, MapSize(store)) + 1, MapSize(store))]
  /\ UNCHANGED <<heap, calls, retr, apiVars, sdkVars>>

SimilaritySearch(queryEmbedding, topK) ==
  /\ search' = [called |-> TRUE, q |-> queryEmbedding, topK |-> topK,
                docs |-> similaritySearch(store, queryEmbedding, topK),
                outcome |-> "returned",
                during |-> \E p \in DOMAIN calls : calls[p].pc = "await"]
  /\ UNCHANGED <<heap, store, calls, retr, apiVars, sdkVars>>

----------------------------------------------------------------------------
(* Retriever.retrieve                                                      *)

\* constructor: this.topK = config.topK || 5  (0 stands for an absent topK)
RetrieverTopK(configTopK) == IF configTopK = 0 THEN 5 ELSE configTopK

\* what the injected embedding model may answer to generateEmbeddings([query]):
\* it throws, or it resolves with a list of vectors, possibly an empty one
EmbeddingAnswers ==
  {[kind |-> "throws", vectors |-> <<>>], [kind |-> "returns", vectors |-> <<>>]}
  \cup {[kind |-> "returns", vectors |-> <<q>>] : q \in QueryEmbeddings}

NoRetrieve == [pc |-> "idle", topK |-> 0, answer |-> "none", vectors |-> <<>>,
               outcome |-> "none", docs |-> <<>>, searched |-> FALSE]

\* retrieve(query) is called and suspends at the await of generateEmbeddings
RetrieveCall(configTopK) ==
  /\ retr.pc \in {"idle", "done"}
  /\ retr' = [NoRetrieve EXCEPT !.pc = "embedding",
                                !.topK = RetrieverTopK(configTopK)]
  /\ UNCHANGED <<heap, store, calls, search, apiVars, sdkVars>>

\* the rest of retrieve once the embedding model has answered
retrieve(r, st, answer) ==
  IF answer.kind = "throws"
    THEN [r EXCEPT !.pc = "done", !.answer = "throws", !.outcome = "threw"]
  ELSE IF answer.vectors = <<>>
    THEN [r EXCEPT !.pc = "done", !.answer = "returns",
                   !.outcome = "returned", !.docs = <<>>]
    ELSE [r EXCEPT !.pc = "done", !.answer = "returns",
                   !.vectors = answer.vectors, !.outcome = "returned",
                   !.docs = similaritySearch(st, Head(answer.vectors), r.topK),
                   !.searched = TRUE]

RetrieveEmbedded(answer) ==
  /\ retr.pc = "embedding"
  /\ retr' = retrieve(retr, store, answer)
  /\ UNCHANGED <<heap, store, calls, search, apiVars, sdkVars>>

----------------------------------------------------------------------------
(* Retriever.formatContext                                                 *)
(*                                                                         *)
(* A string is a sequence of pieces; the separator is one piece, so that a *)
(* text shows how many separators it holds.                                *)

Separator == "\n\n---\n\n"

\* Array.prototype.join over strings that are sequences of pieces
RECURSIVE Join(_, _)
Join(parts, sep) ==
  IF parts = <<>> THEN <<>>
  ELSE IF Len(parts) = 1 THEN parts[1]
  ELSE parts[1] \o <<sep>> \o Join(Tail(parts), sep)

\* the contents of retrieved documents: empty, plain, and one that holds the
\* separator itself
Contents ==
  {<<>>, <<"a">>, <<"b">>, <<"a", "b">>, <<"a", Separator, "b">>}

RetrievedLists ==
  UNION {[1..n -> {[id |-> "d", content |-> c] : c \in Contents}] :
           n \in 0..MaxTopK}

\* a formatContext with a text of its own for the empty list
formatContextSentinel(documents) ==
  IF documents = <<>> THEN <<"No relevant documents found.">>
  ELSE Join([i \in DOMAIN documents |-> documents[i].content], Separator)

\* documents.map(doc => doc.content).join('\n\n---\n\n')
formatContext(documents) ==
  Join([i \in DOMAIN documents |-> documents[i].content], Separator)

NoFormat == [called |-> FALSE, documents |-> <<>>, out |-> <<>>]

FormatContextCall(documents) ==
  /\ fmt' = [called |-> TRUE, documents |-> documents,
             out |-> formatContext(documents)]
  /\ UNCHANGED <<coreVars, apiVars, web, stream, adapter>>

----------------------------------------------------------------------------
(* The chat endpoint of the example API: router.post('/') of the chat      *)
(* routes and processChatLogic of lib/chatProcessor.                       *)
(*                                                                         *)
(* A JavaScript value of a request body is a record with its type; a       *)
(* string is a sequence of pieces, joined by \o.                           *)

JsUndefined == [type |-> "undefined"]

JsNumber == [type |-> "number"]

JsString(v) == [type |-> "string", value |-> v]

JsArray(v) == [type |-> "array", value |-> v]

\* !x for the values above: undefined and the empty string are falsy
Falsy(x) == x.type = "undefined" \/ (x.type = "string" /\ x.value = <<>>)

UserMsg == [role |-> "user", content |-> JsString(<<"earlier question">>)]

AssistantMsg == [role |-> "assistant", content |-> JsString(<<"earlier answer">>)]

\* a message with the text of the new question
Question == [role |-> "user", content |-> JsString(<<"question">>)]

\* two entries the route refuses: a role it does not know, a content that is
\* no string
SystemMsg == [role |-> "system", content |-> JsString(<<"injected">>)]

NumberMsg == [role |-> "user", content |-> JsNumber]

ChatBodies ==
  [query : {JsUndefined, JsNumber, JsString(<<>>), JsString(<<"question">>)},
   collectionName : {JsUndefined, JsNumber, JsString(<<"docs">>)},
   chatHistory : {JsUndefined, JsNumber, JsArray(<<>>),
                  JsArray(<<UserMsg, AssistantMsg>>), JsArray(<<SystemMsg>>),
                  JsArray(<<Question, AssistantMsg>>),
                  JsArray(<<UserMsg, NumberMsg>>)}]

\* the every(...) test of the route on one chatHistory entry
ValidHistoryMessage(msg) ==
  msg.role \in {"user", "assistant"} /\ msg.content.type = "string"

\* a route that checks the query and the collection name only
ChatValidationNoHistory(body) ==
  IF Falsy(body.query) \/ body.query.type # "string"
    THEN <<"Invalid input: 'query' is required and must be a string.">>
  ELSE IF body.collectionName.type \notin {"undefined", "string"}
    THEN <<"Invalid input: 'collectionName' must be a string if provided.">>
  ELSE <<>>

\* the three validations of router.post('/'): the 400 message, or <<>>
ChatValidation(body) ==
  IF Falsy(body.query) \/ body.query.type # "string"
    THEN <<"Invalid input: 'query' is required and must be a string.">>
  ELSE IF body.collectionName.type \notin {"undefined", "string"}
    THEN <<"Invalid input: 'collectionName' must be a string if provided.">>
  ELSE IF /\ body.chatHistory.type # "undefined"
          /\ \/ body.chatHistory.type # "array"
             \/ \E i \in DOMAIN body.chatHistory.value :
                  ~ValidHistoryMessage(body.chatHistory.value[i])
    THEN <<"Invalid input: 'chatHistory' must be an array of {role: 'user'|'assistant', content: string} objects if provided.">>
  ELSE <<>>

\* the documents a similarity search of the chat processor may return
ChatDoc1 == [content |-> "text one", metadata |-> [url |-> "url one", chunk_index |-> 0]]

ChatDoc2 == [content |-> "text two", metadata |-> [url |-> "url two", chunk_index |-> 1]]

SearchAnswers ==
  {[kind |-> "throws", docs |-> <<>>]}
  \cup {[kind |-> "returns", docs |-> d] :
          d \in {<<>>, <<ChatDoc1>>, <<ChatDoc1, ChatDoc2>>}}

GenerationAnswers ==
  {[kind |-> "throws", text |-> <<>>], [kind |-> "returns", text |-> <<"answer">>]}

Sentinel == "No relevant documents found in the knowledge base."

Instructions == "You are a helpful AI assistant. ... Context:\n"

\* a processor that joins the documents and has no message for none
ChatContextJoinOnly(similarDocuments) ==
  Join([i \in DOMAIN similarDocuments |->
          <<similarDocuments[i].metadata.url, "\n\n",
            similarDocuments[i].content>>], Separator)

\* step 3 of processChatLogic: the context of the system prompt
ChatContext(similarDocuments) ==
  IF Len(similarDocuments) = 0 THEN <<Sentinel>>
  ELSE Join([i \in DOMAIN similarDocuments |->
               <<similarDocuments[i].metadata.url, "\n\n",
                 similarDocuments[i].content>>], Separator)

\* a list with the new user message pushed before the chat history
MessagesForLLMQueryFirst(body, similarDocuments) ==
  <<[role |-> "system",
     content |-> JsString(<<Instructions>> \o ChatContext(similarDocuments))]>>
  \o <<[role |-> "user", content |-> body.query]>>
  \o (IF body.chatHistory.type = "array" THEN body.chatHistory.value ELSE <<>>)

\* messagesForLLM: the system prompt, the chat history, the new user message
MessagesForLLM(body, similarDocuments) ==
  <<[role |-> "system",
     content |-> JsString(<<Instructions>> \o ChatContext(similarDocuments))]>>
  \o (IF body.chatHistory.type = "array" THEN body.chatHistory.value ELSE <<>>)
  \o <<[role |-> "user", content |-> body.query]>>

\* sourceDocuments of the success result
SourceDocuments(similarDocuments) ==
  [i \in DOMAIN similarDocuments |->
     [content |-> similarDocuments[i].content,
      url |-> similarDocuments[i].metadata.url,
      chunkIndex |-> similarDocuments[i].metadata.chunk_index]]

\* res.status(code).json(body)
Response(code, body) == [code |-> code, body |-> body]

NoResponse == Response(0, <<>>)

\* the catch of the route: whatever processChatLogic threw becomes a 500
ChatRouteCatch(message) ==
  Response(500, [status |-> "error", message |-> message])

\* the route after processChatLogic returned
ChatRouteReturn(result) == Response(200, result)

\* a processor that answers a failed generation with the retrieved documents
ChatAfterGenerationFallback(c, answer) ==
  [c EXCEPT !.stage = "responded",
            !.failed = IF answer.kind = "throws" THEN "generating" ELSE "none",
            !.response = ChatRouteReturn(
               [status |-> "success",
                response |-> IF answer.kind = "throws"
                               THEN ChatContext(c.docs) ELSE answer.text,
                sourceDocuments |-> SourceDocuments(c.docs)])]

\* step 4 of processChatLogic and the end of the route, once the awaited
\* llm.chat.completions.create has thrown or returned
ChatAfterGeneration(c, answer) ==
  IF answer.kind = "throws"
    THEN [c EXCEPT !.stage = "responded", !.failed = "generating",
                   !.response = ChatRouteCatch(<<"generation failed">>)]
    ELSE [c EXCEPT !.stage = "responded",
                   !.response = ChatRouteReturn(
                      [status |-> "success", response |-> answer.text,
                       sourceDocuments |-> SourceDocuments(c.docs)])]

\* one chat request: the stage it is suspended in, the stages it entered so
\* far, the calls it made to the embedding and the generation capability, what
\* it retrieved, what it handed to the LLM, the stage that failed, the response
NoChat == [stage |-> "idle", body |-> <<>>, trace |-> <<>>,
           embedCalls |-> 0, genCalls |-> 0, docs |-> <<>>,
           messages |-> <<>>, failed |-> "none", response |-> NoResponse]

\* POST /api/chat arrives: the route validates, then processChatLogic runs up
\* to its first await, the embedding of the query
ChatRequest(body) ==
  /\ chat.stage = "idle"
  /\ chat' =
       IF ChatValidation(body) # <<>>
         THEN [NoChat EXCEPT !.stage = "responded", !.body = body,
                             !.failed = "validation",
                             !.response = Response(400,
                                [status |-> "error",
                                 message |-> ChatValidation(body)])]
         ELSE [NoChat EXCEPT !.stage = "embedding", !.body = body,
                             !.trace = <<"embedding">>, !.embedCalls = 1]
  /\ UNCHANGED <<heap, store, calls, search, retr, ing, chunks, sdkVars>>

\* a processor that goes on to the search although the embedding failed
ChatEmbeddedContinues(answer) ==
  /\ chat.stage = "embedding"
  /\ chat' = [chat EXCEPT
                !.stage = "retrieving",
                !.trace = Append(chat.trace, "retrieving"),
                !.failed = IF answer.kind = "throws" \/ answer.vectors = <<>>
                             THEN "embedding" ELSE "none"]
  /\ UNCHANGED <<heap, store, calls, search, retr, ing, chunks, sdkVars>>

\* generateEmbeddings([query]) answered: step 1 ends, step 2 awaits the search
ChatEmbedded(answer) ==
  /\ chat.stage = "embedding"
  /\ chat' =
       IF answer.kind = "throws"
         THEN [chat EXCEPT !.stage = "responded", !.failed = "embedding",
                           !.response = ChatRouteCatch(<<"embedding failed">>)]
       ELSE IF answer.vectors = <<>>
         THEN [chat EXCEPT !.stage = "responded", !.failed = "embedding",
                           !.response = ChatRouteCatch(
                              <<"Failed to generate embedding for the query.">>)]
         ELSE [chat EXCEPT !.stage = "retrieving",
                           !.trace = Append(chat.trace, "retrieving")]
  /\ UNCHANGED <<heap, store, calls, search, retr, ing, chunks, sdkVars>>

\* similaritySearch answered: step 3 builds the prompt, step 4 awaits the LLM
ChatSearched(answer) ==
  /\ chat.stage = "retrieving"
  /\ chat' =
       IF answer.kind = "throws"
         THEN [chat EXCEPT !.stage = "responded", !.failed = "retrieving",
                           !.response = ChatRouteCatch(<<"search failed">>)]
         ELSE [chat EXCEPT !.stage = "generating",
                           !.trace = Append(chat.trace, "generating"),
                           !.docs = answer.docs,
                           !.messages = MessagesForLLM(chat.body, answer.docs),
                           !.genCalls = chat.genCalls + 1]
  /\ UNCHANGED <<heap, store, calls, search, retr, ing, chunks, sdkVars>>

\* llm.chat.completions.create answered
ChatGenerated(answer) ==
  /\ chat.stage = "generating"
  /\ chat' = ChatAfterGeneration(chat, answer)
  /\ UNCHANGED <<heap, store, calls, search, retr, ing, chunks, sdkVars>>

\* the next request
ChatNext ==
  /\ chat.stage = "responded"
  /\ chat' = NoChat
  /\ UNCHANGED <<heap, store, calls, search, retr, ing, chunks, sdkVars>>

----------------------------------------------------------------------------
(* The collection endpoints of the example API: handleCollectionRequest of *)
(* the collection routes and processCollectionLogic of                     *)
(* lib/collectionProcessor.                                                *)
(*                                                                         *)
(* A text is the sequence of its characters; the characters of a cleaned  *)
(* page are numbered 1, 2, ... so that a chunk shows where it was cut.      *)

Url1 == JsString(<<"u1">>)

Url2 == JsString(<<"u2">>)

CollectionBodies ==
  [urls : {JsUndefined, JsNumber, JsArray(<<>>), JsArray(<<Url1>>),
           JsArray(<<Url1, Url2>>), JsArray(<<Url1, Url1>>),
           JsArray(<<Url1, JsNumber>>)},
   collectionName : {JsUndefined, JsNumber, JsString(<<"docs">>)}]

\* config.urlsToProcess: the URLS_TO_PROCESS of the environment, or the default
ConfigUrls == {<<>>, <<Url2>>}

Operations == {"reset", "seed", "update"}

\* the two validations of handleCollectionRequest: the 400 message, or <<>>
CollectionValidation(body) ==
  IF /\ body.urls.type # "undefined"
     /\ \/ body.urls.type # "array"
        \/ \E i \in DOMAIN body.urls.value : body.urls.value[i].type # "string"
    THEN <<"Invalid input: 'urls' must be an array of strings if provided.">>
  ELSE IF body.collectionName.type \notin {"undefined", "string"}
    THEN <<"Invalid input: 'collectionName' must be a string if provided.">>
  ELSE <<>>

\* urlsToProcess of processCollectionLogic
UrlsToProcess(body, configUrls) ==
  IF body.urls.type = "array" /\ Len(body.urls.value) > 0
    THEN body.urls.value ELSE configUrls

Text(n) == [i \in 1..n |-> i]

\* String.prototype.substring(from, to), both inside 0..length or beyond it
Substring(text, from, to) == SubSeq(text, from + 1, Min(to, Len(text)))

\* a loop that goes on by chunkSize, so that the chunks do not overlap
RECURSIVE ChunkFromNoOverlap(_, _, _, _, _, _)
ChunkFromNoOverlap(text, url, chunkSize, chunkOverlap, i, documents) ==
  IF ~(i < Len(text)) THEN documents
  ELSE ChunkFromNoOverlap(text, url, chunkSize, chunkOverlap,
                          i + chunkSize,
                          Append(documents,
                                 [id |-> <<"doc_", url, "_", Len(documents)>>,
                                  content |-> Substring(text, i, i + chunkSize),
                                  metadata |-> [url |-> url,
                                                chunk_index |-> Len(documents)]]))

\* chunkText: the for loop from offset i on, documents being the chunks so far
RECURSIVE ChunkFrom(_, _, _, _, _, _)
ChunkFrom(text, url, chunkSize, chunkOverlap, i, documents) ==
  IF ~(i < Len(text)) THEN documents
  ELSE ChunkFrom(text, url, chunkSize, chunkOverlap,
                 i + (chunkSize - chunkOverlap),
                 Append(documents,
                        [id |-> <<"doc_", url, "_", Len(documents)>>,
                         content |-> Substring(text, i, i + chunkSize),
                         metadata |-> [url |-> url,
                                       chunk_index |-> Len(documents)]]))

chunkText(text, url, chunkSize, chunkOverlap) ==
  ChunkFrom(text, url, chunkSize, chunkOverlap, 0, <<>>)

\* one call of chunkText: its arguments and the documents it returned
NoChunks == [called |-> FALSE, text |-> <<>>, url |-> <<>>, chunkSize |-> 0,
             chunkOverlap |-> 0, out |-> <<>>]

\* chunkText(text, url, chunkSize, chunkOverlap) is called and returns
ChunkTextCall(text, url, chunkSize, chunkOverlap) ==
  /\ chunks' = [called |-> TRUE, text |-> text, url |-> url,
                chunkSize |-> chunkSize, chunkOverlap |-> chunkOverlap,
                out |-> chunkText(text, url, chunkSize, chunkOverlap)]
  /\ UNCHANGED <<coreVars, chat, ing, sdkVars>>

\* what fetchWebPageContent and cleanText may give for one URL: the fetch
\* throws, the page has no content, or the content is cleaned to a text (which
\* is empty when the page held white space only)
FetchAnswers ==
  {[kind |-> "throws", text |-> <<>>], [kind |-> "empty", text |-> <<>>]}
  \cup {[kind |-> "content", text |-> Text(n)] : n \in 0..MaxTextLen}

\* db.dropCollection: it succeeds, or it throws because there is no such
\* collection, or it throws for another reason and the collection stays
DropAnswers == {"dropped", "does not exist", "other error"}

CreateAnswers == {"created", "throws"}

BatchAnswers == {"throws", "returns"}

\* Array.prototype.slice(start, end) for 0 <= start <= end
Slice(xs, start, end) == SubSeq(xs, start + 1, Min(end, Len(xs)))

\* the vectors the embedding adapter returns for the texts of one batch
BatchEmbeddings(pageContents) == [i \in DOMAIN pageContents |-> <<Len(pageContents[i]), 1>>]

\* batch.forEach((doc, index) => push({...doc, embedding: embeddings[index]}))
WithEmbeddings(batch, embeddings) ==
  [i \in DOMAIN batch |->
     [id |-> batch[i].id, content |-> batch[i].content,
      metadata |-> batch[i].metadata, embedding |-> <<embeddings[i]>>]]

\* VectorStore.addDocuments for documents that all carry an embedding: the
\* loop never awaits and sets one document after the other
RECURSIVE AddEmbedded(_, _)
AddEmbedded(m, documents) ==
  IF documents = <<>> THEN m
  ELSE AddEmbedded(MapSet(m, Head(documents).id, Head(documents)), Tail(documents))

\* the catch of handleCollectionRequest
CollectionRouteCatch(message) ==
  Response(500, [status |-> "error", message |-> message])

\* one collection request.  db is the Astra collection (whether it exists and
\* whether it still holds the documents it held before the request), vstore
\* the Map of the VectorStore the request constructs, steps the awaited calls
\* made so far, failed the step that threw and batch the index of the batch
\* being embedded.
NoIngest == [pc |-> "idle", op |-> "none", urls |-> <<>>, u |-> 0,
             allSdkDocuments |-> <<>>, documentsWithEmbeddings |-> <<>>,
             batch |-> 0, vstore |-> EmptyMap,
             db |-> [exists |-> FALSE, old |-> FALSE],
             steps |-> <<>>, failed |-> "none", response |-> NoResponse]

IngestFail(g, stage, message) ==
  [g EXCEPT !.pc = "responded", !.failed = stage,
            !.response = CollectionRouteCatch(message)]

\* the step after createCollection: the first URL is fetched
IngestStartFetch(g) == [g EXCEPT !.pc = "fetching", !.u = 1]

\* POST /api/collection/<operation> arrives with the collection in state db
IngestRequest(operation, body, configUrls, exists) ==
  /\ ing.pc = "idle"
  /\ LET g == [NoIngest EXCEPT !.op = operation,
                               !.db = [exists |-> exists, old |-> exists]]
         urls == UrlsToProcess(body, configUrls)
     IN ing' =
          IF CollectionValidation(body) # <<>>
            THEN [g EXCEPT !.pc = "responded", !.failed = "validation",
                           !.response = Response(400,
                              [status |-> "error",
                               message |-> CollectionValidation(body)])]
          ELSE IF Len(urls) = 0
            THEN IngestFail(g, "urls", <<"No URLs provided to process.">>)
          ELSE IF operation = "reset"
            THEN [g EXCEPT !.pc = "dropping", !.urls = urls]
            ELSE [g EXCEPT !.pc = "creating", !.urls = urls]
  /\ UNCHANGED <<heap, store, calls, search, retr, chat, chunks, sdkVars>>

\* db.dropCollection answered; its error is logged and swallowed
IngestDropped(answer) ==
  /\ ing.pc = "dropping"
  /\ answer = "does not exist" <=> ~ing.db.exists
  /\ ing' = [ing EXCEPT !.pc = "creating",
                        !.steps = Append(ing.steps, "drop"),
                        !.db = IF answer = "dropped"
                                 THEN [exists |-> FALSE, old |-> FALSE]
                                 ELSE ing.db]
  /\ UNCHANGED <<heap, store, calls, search, retr, chat, chunks, sdkVars>>

\* db.createCollection answered; then a VectorStore is constructed
IngestCreated(answer) ==
  /\ ing.pc = "creating"
  /\ ing' =
       IF answer = "throws"
         THEN IngestFail([ing EXCEPT !.steps = Append(ing.steps, "create")],
                         "create", <<"Failed to ensure/create collection">>)
         ELSE IngestStartFetch(
                [ing EXCEPT !.steps = Append(ing.steps, "create"),
                            !.db = [exists |-> TRUE, old |-> ing.db.old]])
  /\ UNCHANGED <<heap, store, calls, search, retr, chat, chunks, sdkVars>>

\* a loop that hands every embedded batch to the store at once
IngestAfterBatchesEager(g) ==
  IF g.batch * EMBEDDING_BATCH_SIZE < Len(g.allSdkDocuments)
    THEN [g EXCEPT !.pc = "embedding",
                   !.vstore = AddEmbedded(g.vstore, g.documentsWithEmbeddings)]
    ELSE [g EXCEPT
            !.pc = "responded",
            !.steps = Append(g.steps, "add"),
            !.vstore = AddEmbedded(g.vstore, g.documentsWithEmbeddings),
            !.response = Response(200,
               [status |-> "success",
                documentsProcessed |-> Len(g.documentsWithEmbeddings),
                urlsProcessed |-> g.urls])]

\* the loop over allSdkDocuments from offset i on, up to the await of the
\* embedding of the next batch, or past the loop: addDocuments and the result
IngestAfterBatches(g) ==
  IF g.batch * EMBEDDING_BATCH_SIZE < Len(g.allSdkDocuments)
    THEN [g EXCEPT !.pc = "embedding"]
    ELSE [g EXCEPT
            !.pc = "responded",
            !.steps = Append(g.steps, "add"),
            !.vstore = AddEmbedded(g.vstore, g.documentsWithEmbeddings),
            !.response = Response(200,
               [status |-> "success",
                documentsProcessed |-> Len(g.documentsWithEmbeddings),
                urlsProcessed |-> g.urls])]

\* fetchWebPageContent answered for URL u: the page is cleaned and chunked, and
\* after the last URL the embedding of the first batch is awaited
IngestFetched(answer) ==
  /\ ing.pc = "fetching"
  /\ LET url == ing.urls[ing.u].value
         chunkedDocs == IF answer.kind = "content"
                          THEN chunkText(answer.text, url, CHUNK_SIZE, CHUNK_OVERLAP)
                          ELSE <<>>
         g == [ing EXCEPT !.steps = Append(ing.steps, "fetch"),
                          !.allSdkDocuments = ing.allSdkDocuments \o chunkedDocs,
                          !.u = ing.u + 1]
     IN ing' =
          IF answer.kind = "throws"
            THEN IngestFail([ing EXCEPT !.steps = Append(ing.steps, "fetch")],
                            "fetch", <<"Failed to fetch content from URL">>)
          ELSE IF g.u <= Len(g.urls) THEN g
          ELSE IF Len(g.allSdkDocuments) = 0
            THEN IngestFail(g, "content",
                   <<"No processable content found from the provided URLs.">>)
          ELSE IngestAfterBatches(g)
  /\ UNCHANGED <<heap, store, calls, search, retr, chat, chunks, sdkVars>>

\* embeddingAdapter.generateEmbeddings(pageContents) answered for the batch
IngestEmbedded(answer) ==
  /\ ing.pc = "embedding"
  /\ LET i == ing.batch * EMBEDDING_BATCH_SIZE
         batch == Slice(ing.allSdkDocuments, i, i + EMBEDDING_BATCH_SIZE)
         pageContents == [k \in DOMAIN batch |-> batch[k].content]
         g == [ing EXCEPT !.steps = Append(ing.steps, "embed")]
     IN ing' =
          IF answer = "throws"
            THEN IngestFail(g, "embedding", <<"embedding failed">>)
            ELSE IngestAfterBatches(
                   [g EXCEPT !.batch = ing.batch + 1,
                             !.documentsWithEmbeddings =
                                ing.documentsWithEmbeddings \o
                                WithEmbeddings(batch, BatchEmbeddings(pageContents))])
  /\ UNCHANGED <<heap, store, calls, search, retr, chat, chunks, sdkVars>>

\* the next request
IngestNext ==
  /\ ing.pc = "responded"
  /\ ing' = NoIngest
  /\ UNCHANGED <<heap, store, calls, search, retr, chat, chunks, sdkVars>>

----------------------------------------------------------------------------
(* The chat route of the web example: POST of app/api/chat/route.ts.       *)
(* It embeds the latest message, reads the ten nearest documents from the  *)
(* Astra collection, builds the system prompt and hands the conversation   *)
(* to streamText.                                                          *)

\* maxRetries of the streamText call
maxRetries == 5

BlankQuestion == [role |-> "user", content |-> JsString(<<" ">>)]

\* String.prototype.trim on a string of pieces, " " being white space
RECURSIVE TrimStart(_)
TrimStart(v) == IF v # <<>> /\ Head(v) = " " THEN TrimStart(Tail(v)) ELSE v

RECURSIVE TrimEnd(_)
TrimEnd(v) ==
  IF v # <<>> /\ v[Len(v)] = " " THEN TrimEnd(SubSeq(v, 1, Len(v) - 1)) ELSE v

Trim(v) == TrimEnd(TrimStart(v))

\* what request.json() gives: it throws, or the body has these messages
WebBodies ==
  {[kind |-> "invalid json", messages |-> <<>>]}
  \cup {[kind |-> "json", messages |-> m] :
          m \in {<<>>, <<Question>>, <<BlankQuestion>>, <<NumberMsg>>,
                 <<UserMsg, AssistantMsg, Question>>, <<UserMsg, Question>>}}

\* the validation of the latest message
WebInvalid(messages) ==
  \/ Len(messages) = 0
  \/ messages[Len(messages)].content.type # "string"
  \/ Trim(messages[Len(messages)].content.value) = <<>>

\* what cursor.toArray() may give: it throws, or the texts of the documents
FindAnswers ==
  {[kind |-> "throws", texts |-> <<>>]}
  \cup {[kind |-> "returns", texts |-> t] :
          t \in {<<>>, << <<"text one">> >>, << <<"text one">>, <<"text two">> >>}}

\* what one call of the language model may give
ModelAnswers == {"throws", "returns"}

\* the system prompt around docContext and the latest message
WebSystemPrompt(docContext, latestMessageContent) ==
  <<"You are an AI assistant. ... START CONTEXT\n">> \o docContext
  \o <<"\nEND CONTEXT\n----------------\nQUESTION: ">> \o latestMessageContent
  \o <<"\n----------------\n">>

WebResponse(status, body) == [status |-> status, body |-> body]

\* one request: where it is suspended, the calls made to the embedding API
\* and to the language model, whether the inner catch ran, the context and
\* the system prompt, the response and how its stream ended
NoWeb == [pc |-> "idle", messages |-> <<>>, embedCalls |-> 0, genCalls |-> 0,
          caught |-> FALSE, docContext |-> <<>>, system |-> <<>>,
          response |-> WebResponse(0, <<>>), streamed |-> "none"]

\* the route from the end of the inner try/catch on: the system prompt is
\* built from docContext, streamText starts the first call of the model and
\* stream.response is returned
WebStreamText(w, caught, docContext) ==
  [w EXCEPT
     !.pc = "generating",
     !.caught = caught,
     !.docContext = docContext,
     !.system = WebSystemPrompt(docContext,
                   w.messages[Len(w.messages)].content.value),
     !.genCalls = 1,
     !.response = WebResponse(200, "stream")]

\* POST arrives: the body is parsed and validated, the embedding is awaited
WebRequest(body) ==
  /\ web.pc = "idle"
  /\ web' =
       IF body.kind = "invalid json"
         THEN [NoWeb EXCEPT !.pc = "responded",
                 !.response = WebResponse(500, <<"Internal Server Error">>)]
       ELSE IF WebInvalid(body.messages)
         THEN [NoWeb EXCEPT !.pc = "responded", !.messages = body.messages,
                 !.response = WebResponse(400,
                    <<"Invalid or empty latest message content">>)]
         ELSE [NoWeb EXCEPT !.pc = "embedding", !.messages = body.messages,
                            !.embedCalls = 1]
  /\ UNCHANGED <<coreVars, apiVars, stream, adapter, fmt>>

\* openaiClient.embeddings.create answered; embedding.data[0].embedding is
\* read when the find is built, inside the inner try
WebEmbedded(answer) ==
  /\ web.pc = "embedding"
  /\ web' =
       IF answer.kind = "throws" \/ answer.vectors = <<>>
         THEN WebStreamText(web, TRUE, <<>>)
         ELSE [web EXCEPT !.pc = "finding"]
  /\ UNCHANGED <<coreVars, apiVars, stream, adapter, fmt>>

\* cursor.toArray() answered
WebFound(answer) ==
  /\ web.pc = "finding"
  /\ web' =
       IF answer.kind = "throws"
         THEN WebStreamText(web, TRUE, <<>>)
         ELSE WebStreamText(web, FALSE, Join(answer.texts, Separator))
  /\ UNCHANGED <<coreVars, apiVars, stream, adapter, fmt>>

\* a call of the language model made by streamText answered: a failed call is
\* issued again until maxRetries retries are used up
WebModelAnswered(answer) ==
  /\ web.pc = "generating"
  /\ web' =
       IF answer = "returns"
         THEN [web EXCEPT !.pc = "responded", !.streamed = "text"]
       ELSE IF web.genCalls <= maxRetries
         THEN [web EXCEPT !.genCalls = web.genCalls + 1]
         ELSE [web EXCEPT !.pc = "responded", !.streamed = "error"]
  /\ UNCHANGED <<coreVars, apiVars, stream, adapter, fmt>>

\* the next request
WebNext ==
  /\ web.pc = "responded"
  /\ web' = NoWeb
  /\ UNCHANGED <<coreVars, apiVars, stream, adapter, fmt>>

----------------------------------------------------------------------------
(* LLM.generateStream: an async generator that awaits a timer and yields   *)
(* one chunk of dummyResponseChunks per round of its loop.                 *)
(*                                                                         *)
(* An async generator keeps a queue of the requests of its consumer        *)
(* (next, return) and runs only while a request is pending: state is       *)
(* suspendedStart, executing (here: awaiting the timer), suspendedYield or *)
(* completed.                                                              *)

dummyResponseChunks ==
  <<"This ", "is ", "a ", "streamed ", "dummy ", "response. ",
    "It ", "simulates ", "receiving ", "text ", "in ", "chunks.">>

\* one generator: index counts the rounds of the loop that yielded, out is
\* what the consumer received, finished that it received done: true, stopped
\* that it called return(), stoppedAt the fragments it had asked for by then
\* (those received and those of the next() calls still pending)
NoStream == [state |-> "none", index |-> 0, queue |-> <<>>, out |-> <<>>,
             finished |-> FALSE, stopped |-> FALSE, stoppedAt |-> 0]

\* a generator that starts the next round whether or not a request is pending
RECURSIVE ResumeNextEager(_)
ResumeNextEager(g) ==
  IF g.state = "executing" THEN g
  ELSE IF g.state # "completed" /\ g.index < Len(dummyResponseChunks)
          /\ (g.queue = <<>> \/ Head(g.queue) = "next")
    THEN [g EXCEPT !.state = "executing"]
  ELSE IF g.queue = <<>> THEN g
  ELSE ResumeNextEager([g EXCEPT !.state = "completed", !.queue = Tail(g.queue),
                                 !.finished = TRUE])

\* the generator serves the requests of its queue: a return() completes it, a
\* next() on a completed generator gives done: true, and a next() resumes the
\* body, which awaits the timer of the next round or falls out of the loop
RECURSIVE ResumeNext(_)
ResumeNext(g) ==
  IF g.queue = <<>> \/ g.state = "executing" THEN g
  ELSE IF Head(g.queue) = "return" \/ g.state = "completed"
    THEN ResumeNext([g EXCEPT !.state = "completed", !.queue = Tail(g.queue),
                              !.finished = TRUE])
  ELSE IF g.index < Len(dummyResponseChunks)
    THEN [g EXCEPT !.state = "executing"]
    ELSE ResumeNext([g EXCEPT !.state = "completed", !.queue = Tail(g.queue),
                              !.finished = TRUE])

\* generateStream(prompt) is called: the generator object is created, its
\* body has not run
GenerateStreamCall ==
  /\ stream.state = "none"
  /\ stream' = [NoStream EXCEPT !.state = "suspendedStart"]
  /\ UNCHANGED <<coreVars, apiVars, web, adapter, fmt>>

\* the consumer calls next() or return() on the generator
StreamRequest(kind) ==
  /\ stream.state # "none"
  /\ Len(stream.queue) < MaxPending
  /\ LET stops == kind = "return" /\ ~stream.stopped
         asked == Len(stream.out) +
                  Cardinality({i \in DOMAIN stream.queue : stream.queue[i] = "next"})
     IN stream' = ResumeNext(
          [stream EXCEPT !.queue = Append(stream.queue, kind),
                         !.stopped = stream.stopped \/ stops,
                         !.stoppedAt = IF stops THEN asked ELSE stream.stoppedAt])
  /\ UNCHANGED <<coreVars, apiVars, web, adapter, fmt>>

\* the timer of the round fires: yield chunk answers the pending next()
StreamTimer ==
  /\ stream.state = "executing"
  /\ stream' = ResumeNext(
       [stream EXCEPT
          !.state = "suspendedYield",
          !.index = stream.index + 1,
          !.out = Append(stream.out, dummyResponseChunks[stream.index + 1]),
          !.queue = Tail(stream.queue)])
  /\ UNCHANGED <<coreVars, apiVars, web, adapter, fmt>>

----------------------------------------------------------------------------
(* OpenAIEmbeddingAdapter.generateEmbeddings: the texts are sent to the    *)
(* embeddings API in batches of BATCH_SIZE, new lines replaced by spaces.  *)

\* the texts a caller hands over: plain ones and one with a new line
AdapterTexts == {<<"t">>, <<"u">>, <<"a", "\n", "b">>}

TextLists == UNION {[1..n -> AdapterTexts] : n \in 0..MaxTexts}

\* text.replace(/\n/g, ' ')
ReplaceNewlines(text) ==
  [i \in DOMAIN text |-> IF text[i] = "\n" THEN " " ELSE text[i]]

\* response.data.map(embedding => embedding.embedding) of an answer of the
\* API: one embedding per input of the request, in the order of the inputs
ResponseEmbeddings(batchTexts) ==
  [i \in DOMAIN batchTexts |-> [embeddingOf |-> batchTexts[i]]]

\* one call: the offset i of the loop, allEmbeddings, the batches requested
\* so far and how the call ended (result is what the caller received)
NoAdapter == [pc |-> "idle", texts |-> <<>>, i |-> 0, allEmbeddings |-> <<>>,
              requests |-> <<>>, result |-> <<>>]

\* the head of the loop at offset i: the next batch is requested, or the loop
\* is over and allEmbeddings is returned
AdapterLoop(a) ==
  IF a.i < Len(a.texts)
    THEN LET batchTextsRaw == Slice(a.texts, a.i, a.i + BATCH_SIZE)
             batchTexts == [k \in DOMAIN batchTextsRaw |->
                              ReplaceNewlines(batchTextsRaw[k])]
         IN [a EXCEPT !.pc = "awaiting",
                      !.requests = Append(a.requests, batchTexts)]
    ELSE [a EXCEPT !.pc = "returned", !.result = a.allEmbeddings]

\* a catch that gives the caller what was collected before the failed batch
AdapterAfterBatchPartial(a, answer) ==
  IF answer = "throws"
    THEN [a EXCEPT !.pc = "returned", !.result = a.allEmbeddings]
    ELSE AdapterLoop(
           [a EXCEPT !.allEmbeddings = a.allEmbeddings \o
                        ResponseEmbeddings(a.requests[Len(a.requests)]),
                     !.i = a.i + BATCH_SIZE])

\* the body of the loop after the awaited embeddings.create: the catch logs
\* and rethrows, the try pushes the embeddings and the loop goes on
AdapterAfterBatch(a, answer) ==
  IF answer = "throws"
    THEN [a EXCEPT !.pc = "threw"]
    ELSE AdapterLoop(
           [a EXCEPT !.allEmbeddings = a.allEmbeddings \o
                        ResponseEmbeddings(a.requests[Len(a.requests)]),
                     !.i = a.i + BATCH_SIZE])

\* generateEmbeddings(texts) is called
AdapterCall(texts) ==
  /\ adapter.pc = "idle"
  /\ adapter' = AdapterLoop([NoAdapter EXCEPT !.texts = texts])
  /\ UNCHANGED <<coreVars, apiVars, web, stream, fmt>>

\* this.openai.embeddings.create answered
AdapterAnswered(answer) ==
  /\ adapter.pc = "awaiting"
  /\ adapter' = AdapterAfterBatch(adapter, answer)
  /\ UNCHANGED <<coreVars, apiVars, web, stream, fmt>>

\* the next call
AdapterNext ==
  /\ adapter.pc \in {"returned", "threw"}
  /\ adapter' = NoAdapter
  /\ UNCHANGED <<coreVars, apiVars, web, stream, fmt>>

----------------------------------------------------------------------------

Init ==
  /\ heap = InitHeap
  /\ store = EmptyMap
  /\ calls = [p \in {1, 2} |-> Idle]
  /\ search = NoSearch
  /\ retr = NoRetrieve
  /\ chat = NoChat
  /\ ing = NoIngest
  /\ chunks = NoChunks
  /\ web = NoWeb
  /\ stream = NoStream
  /\ adapter = NoAdapter
  /\ fmt = NoFormat

\* the store used by one caller: addDocuments calls and direct searches
Next ==
  \/ \E documents \in DocLists : AddDocumentsCall(1, documents)
  \/ \E embedding \in GenVectors : EmbeddingResolved(1, embedding)
  \/ \E q \in QueryEmbeddings, k \in 1..MaxTopK : SimilaritySearch(q, k)

Spec == Init /\ [][Next]_vars

\* the one call of a caller that calls addDocuments once
AddDocumentsOnce(p, documents) ==
  /\ calls[p].pc = "idle"
  /\ AddDocumentsCall(p, documents)

\* two callers, each with one addDocuments call, on one store
NextConcurrent ==
  \/ \E p \in {1, 2}, documents \in DocLists : AddDocumentsOnce(p, documents)
  \/ \E p \in {1, 2}, embedding \in GenVectors : EmbeddingResolved(p, embedding)

SpecConcurrent == Init /\ [][NextConcurrent]_vars

\* the store read through a Retriever
NextRetriever ==
  \/ \E documents \in DocLists : AddDocumentsCall(1, documents)
  \/ \E embedding \in GenVectors : EmbeddingResolved(1, embedding)
  \/ \E k \in 0..MaxTopK : RetrieveCall(k)
  \/ \E answer \in EmbeddingAnswers : RetrieveEmbedded(answer)

SpecRetriever == Init /\ [][NextRetriever]_vars

\* chat requests, one after another
NextChat ==
  \/ \E body \in ChatBodies : ChatRequest(body)
  \/ \E answer \in EmbeddingAnswers : ChatEmbedded(answer)
  \/ \E answer \in SearchAnswers : ChatSearched(answer)
  \/ \E answer \in GenerationAnswers : ChatGenerated(answer)
  \/ ChatNext

SpecChat == Init /\ [][NextChat]_vars

\* collection requests, one after another
NextIngest ==
  \/ \E operation \in Operations, body \in CollectionBodies,
        configUrls \in ConfigUrls, exists \in BOOLEAN :
        IngestRequest(operation, body, configUrls, exists)
  \/ \E answer \in DropAnswers : IngestDropped(answer)
  \/ \E answer \in CreateAnswers : IngestCreated(answer)
  \/ \E answer \in FetchAnswers : IngestFetched(answer)
  \/ \E answer \in BatchAnswers : IngestEmbedded(answer)
  \/ IngestNext

SpecIngest == Init /\ [][NextIngest]_vars

\* app.use('/api/chat', chatRoutes): a chat request arrives at the server
ApiChatRequest(body) ==
  /\ ing.pc = "idle"
  /\ ChatRequest(body)

\* app.use('/api/collection', collectionRoutes): a collection request arrives
ApiCollectionRequest(operation, body, configUrls, exists) ==
  /\ chat.stage = "idle"
  /\ IngestRequest(operation, body, configUrls, exists)

\* the Express server with both routers; the requests share no state, so they
\* are taken one after another
NextApi ==
  \/ \E body \in ChatBodies : ApiChatRequest(body)
  \/ \E answer \in EmbeddingAnswers : ChatEmbedded(answer)
  \/ \E answer \in SearchAnswers : ChatSearched(answer)
  \/ \E answer \in GenerationAnswers : ChatGenerated(answer)
  \/ ChatNext
  \/ \E operation \in Operations, body \in CollectionBodies,
        configUrls \in ConfigUrls, exists \in BOOLEAN :
        ApiCollectionRequest(operation, body, configUrls, exists)
  \/ \E answer \in DropAnswers : IngestDropped(answer)
  \/ \E answer \in CreateAnswers : IngestCreated(answer)
  \/ \E answer \in FetchAnswers : IngestFetched(answer)
  \/ \E answer \in BatchAnswers : IngestEmbedded(answer)
  \/ IngestNext

SpecApi == Init /\ [][NextApi]_vars

\* the server when every awaited call of a request settles: it returns or it
\* throws
SpecApiFair == SpecApi /\ WF_vars(NextApi)

\* the stores left by one addDocuments call on documents that carry their
\* embeddings
StoredContents ==
  {RunLoop(EmptyMap, InitHeap, documents, 1).store :
     documents \in {l \in DocLists :
                      \A i \in DOMAIN l : InitHeap[l[i]].embedding # Undefined}}

\* a store that documents were added to, and nothing read yet
InitRead ==
  /\ heap = InitHeap
  /\ store \in StoredContents
  /\ calls = [p \in {1, 2} |-> Idle]
  /\ search = NoSearch
  /\ retr = NoRetrieve
  /\ chat = NoChat
  /\ ing = NoIngest
  /\ chunks = NoChunks
  /\ web = NoWeb
  /\ stream = NoStream
  /\ adapter = NoAdapter
  /\ fmt = NoFormat

\* retriever.formatContext(retrievedDocs): the documents a retrieve returned
\* are formatted
FormatRetrieved ==
  /\ retr.pc = "done"
  /\ retr.outcome = "returned"
  /\ FormatContextCall([i \in DOMAIN retr.docs |->
                          [id |-> heap[retr.docs[i]].id,
                           content |-> <<heap[retr.docs[i]].content>>]])

\* the three reading operations on a store that no call adds to
NextRead ==
  \/ \E q \in QueryEmbeddings, k \in 1..MaxTopK : SimilaritySearch(q, k)
  \/ \E k \in 0..MaxTopK : RetrieveCall(k)
  \/ \E answer \in EmbeddingAnswers : RetrieveEmbedded(answer)
  \/ FormatRetrieved

SpecRead == InitRead /\ [][NextRead]_vars

\* calls of chunkText on texts of every length up to two chunks of the largest
\* size, with every overlap smaller than the size
NextChunk ==
  \E n \in 0..(2 * MaxChunkSize), url \in {Url1.value, Url2.value},
     chunkSize \in 1..MaxChunkSize :
    \E chunkOverlap \in 0..(chunkSize - 1) :
      ChunkTextCall(Text(n), url, chunkSize, chunkOverlap)

SpecChunk == Init /\ [][NextChunk]_vars

\* requests to the route of the web example, one after another
NextWeb ==
  \/ \E body \in WebBodies : WebRequest(body)
  \/ \E answer \in EmbeddingAnswers : WebEmbedded(answer)
  \/ \E answer \in FindAnswers : WebFound(answer)
  \/ \E answer \in ModelAnswers : WebModelAnswered(answer)
  \/ WebNext

SpecWeb == Init /\ [][NextWeb]_vars

\* one streamed generation and its consumer
NextStream ==
  \/ GenerateStreamCall
  \/ \E kind \in {"next", "return"} : StreamRequest(kind)
  \/ StreamTimer

SpecStream == Init /\ [][NextStream]_vars

\* calls of the embedding adapter, one after another
NextAdapter ==
  \/ \E texts \in TextLists : AdapterCall(texts)
  \/ \E answer \in BatchAnswers : AdapterAnswered(answer)
  \/ AdapterNext

SpecAdapter == Init /\ [][NextAdapter]_vars

\* calls of formatContext
NextFormat == \E documents \in RetrievedLists : FormatContextCall(documents)

SpecFormat == Init /\ [][NextFormat]_vars

----------------------------------------------------------------------------
(* Cosine similarity, as the ranking contract states it: dot(a,b) over the *)
(* product of the magnitudes, 0 when either magnitude is 0.  The vectors   *)
(* are integer vectors, and similarities are compared without division.    *)

RECURSIVE DotTo(_, _, _)
DotTo(a, b, n) == IF n = 0 THEN 0 ELSE DotTo(a, b, n - 1) + a[n] * b[n]

Dot(a, b) == DotTo(a, b, Len(a))

\* numerator and squared denominator of the similarity of d to q
SimNum(q, d) == IF Dot(q, q) = 0 \/ Dot(d, d) = 0 THEN 0 ELSE Dot(q, d)

SimDen(q, d) == IF Dot(q, q) = 0 \/ Dot(d, d) = 0 THEN 1 ELSE Dot(d, d)

\* cos(q, a) > cos(q, b)
SimGreater(q, a, b) ==
  LET x == SimNum(q, a)
      y == SimNum(q, b)
      l == x * x * SimDen(q, b)
      r == y * y * SimDen(q, a)
  IN IF x >= 0 /\ y >= 0 THEN l > r
     ELSE IF x >= 0 THEN TRUE
     ELSE IF y >= 0 THEN FALSE
     ELSE l < r

\* ascending order of the document ids
IdRank == [a |-> 1, b |-> 2, c |-> 3]

Embedding(o) == Head(heap[o].embedding)

\* document x ranks before document y for the query q
RanksBefore(q, x, y) ==
  \/ SimGreater(q, Embedding(x), Embedding(y))
  \/ /\ ~SimGreater(q, Embedding(y), Embedding(x))
     /\ IdRank[heap[x].id] < IdRank[heap[y].id]

Stored(st) == Range(st.vals)

\* r is the list of the topK stored documents, best first
IsRankedTopK(st, q, topK, r) ==
  /\ Len(r) = Min(topK, MapSize(st))
  /\ \A i \in DOMAIN r : r[i] \in Stored(st)
  /\ \A i, j \in DOMAIN r : i < j => RanksBefore(q, r[i], r[j])
  /\ \A i \in DOMAIN r : \A o \in Stored(st) \ Range(r) : RanksBefore(q, r[i], o)

\* every stored embedding has the length of q
SameDimension(st, q) ==
  \A o \in Stored(st) :
    heap[o].embedding # Undefined /\ Len(Embedding(o)) = Len(q)

----------------------------------------------------------------------------
(* Claims about the store, checked under Spec.                             *)

\* C1: for every store content and every query embedding of the store's
\* dimension, similaritySearch returns the stored documents ordered by
\* descending cosine similarity, ties broken by ascending id.
C1_RankedBySimilarity ==
  \A q \in QueryEmbeddings, k \in 1..MaxTopK :
    SameDimension(store, q) =>
      IsRankedTopK(store, q, k, similaritySearch(store, q, k))

\* C2: with topK > 0, similaritySearch returns exactly min(topK, size)
\* results, each a distinct stored document; it never ends in an error, and
\* on the empty store it returns the empty sequence.
C2_ResultCount ==
  /\ \A q \in QueryEmbeddings, k \in 1..MaxTopK :
       LET r == similaritySearch(store, q, k)
       IN /\ Len(r) = Min(k, MapSize(store))
          /\ \A i \in DOMAIN r : r[i] \in Stored(store)
          /\ \A i, j \in DOMAIN r : i # j => heap[r[i]].id # heap[r[j]].id
          /\ MapSize(store) = 0 => r = <<>>
  /\ search.called => search.outcome = "returned"

\* a search asked for more documents than the store held, and got them all
C2_Witness ==
  /\ search.called
  /\ Len(search.docs) = 2
  /\ search.topK = 3

\* C3: a search whose query embedding differs in length from the stored
\* embeddings fails with DimensionMismatch and returns no documents; so no
\* search returns a document whose embedding has another length than the query.
C3_DimensionMismatch ==
  (search.called /\ \E i \in DOMAIN search.docs :
                      Len(Embedding(search.docs[i])) # Len(search.q))
    => search.outcome = "DimensionMismatch"

\* C4: all embeddings held by one store have the same length.
C4_OneDimension ==
  \A x, y \in Stored(store) :
    (heap[x].embedding # Undefined /\ heap[y].embedding # Undefined)
      => Len(Embedding(x)) = Len(Embedding(y))

\* C5 as claimed: an addDocuments call given a document that lacks an
\* embedding is rejected, so no such call completes.
C5_RejectsMissingEmbedding ==
  calls[1].lacking => calls[1].pc # "done"

\* C5 as amended: addDocuments does not reject a document that lacks an
\* embedding; the store generates one, so no stored document is ever without
\* an embedding, and when the call completes every document of the list has
\* an embedding and its id is in the store.
C5_GeneratesMissingEmbedding ==
  /\ \A o \in Stored(store) : heap[o].embedding # Undefined
  /\ calls[1].pc = "done" =>
       \A i \in DOMAIN calls[1].docs :
         /\ heap[calls[1].docs[i]].embedding # Undefined
         /\ MapHas(store, heap[calls[1].docs[i]].id)

\* a call given the document without embedding completed, and the document
\* is stored with a generated embedding
C5_Witness ==
  /\ calls[1].pc = "done"
  /\ calls[1].lacking
  /\ 4 \in Stored(store)
  /\ heap[4].embedding \in {<<v>> : v \in GenVectors}

\* the last document of the list docs that has the id of docs[i]
LastWithId(docs, i) ==
  docs[CHOOSE j \in DOMAIN docs :
         /\ heap[docs[j]].id = heap[docs[i]].id
         /\ \A k \in DOMAIN docs : heap[docs[k]].id = heap[docs[i]].id => k <= j]

\* C6: ids are unique in the store and every entry is keyed by the id of its
\* document; setting a document whose id is present replaces the stored
\* document and leaves the size unchanged, so after a call each id of the list
\* maps to the last document of the list with that id.
C6_UpsertReplaces ==
  /\ \A i, j \in DOMAIN store.keys : i # j => store.keys[i] # store.keys[j]
  /\ \A i \in DOMAIN store.keys : heap[store.vals[i]].id = store.keys[i]
  /\ \A o \in Objs :
       LET m == MapSet(store, heap[o].id, o)
       IN /\ MapGet(m, heap[o].id) = o
          /\ MapHas(store, heap[o].id) => MapSize(m) = MapSize(store)
  /\ calls[1].pc = "done" =>
       \A i \in DOMAIN calls[1].docs :
         MapGet(store, heap[calls[1].docs[i]].id) = LastWithId(calls[1].docs, i)

\* a list with two documents of the same id was added: one entry, the later one
C6_Witness ==
  /\ calls[1].pc = "done"
  /\ calls[1].docs = <<1, 4>>
  /\ MapSize(store) = 1
  /\ MapGet(store, "a") = 4

\* C7: a call that repeats the previous call with the same list leaves the
\* store as the first call left it: same size, same documents, and the same
\* search result for every query and topK.
C7_Idempotent ==
  (calls[1].pc = "done" /\ calls[1].repeat) =>
    LET old == calls[1].before[1]
    IN /\ MapSize(store) = MapSize(old)
       /\ store = old
       /\ heap = calls[1].before[2]
       /\ \A q \in QueryEmbeddings, k \in 1..MaxTopK :
            similaritySearch(store, q, k) = similaritySearch(old, q, k)

\* a list of two documents, one of them embedded by the store, was added twice
C7_Witness ==
  /\ calls[1].pc = "done"
  /\ calls[1].repeat
  /\ calls[1].docs = <<2, 4>>
  /\ MapSize(store) = 3

\* C26: a document passed to addDocuments with an embedding is stored as it
\* is: the embedding model of the store is asked only for a document without
\* an embedding, a document that has an embedding is never changed, the only
\* change to a document is the embedding generated for it, and a completed
\* call has stored every document of its list that no later document of the
\* list replaced.
C26_PresentEmbeddingKept ==
  /\ [](calls[1].pc = "await" =>
          heap[calls[1].docs[calls[1].i]].embedding = Undefined)
  /\ [][\A o \in Objs : heap[o].embedding # Undefined => heap'[o] = heap[o]]_vars
  /\ [][\A o \in Objs :
          heap'[o] # heap[o] =>
            /\ calls[1].pc = "await" /\ o = calls[1].docs[calls[1].i]
            /\ heap'[o].embedding # Undefined
            /\ heap'[o] = [heap[o] EXCEPT !.embedding = heap'[o].embedding]]_vars
  /\ [][(calls'[1] # calls[1] /\ calls'[1].pc = "done") =>
          \A i \in DOMAIN calls'[1].docs :
            LET o == calls'[1].docs[i]
            IN (\A j \in DOMAIN calls'[1].docs : j > i => heap[calls'[1].docs[j]].id # heap[o].id)
                 => MapGet(store', heap[o].id) = o]_vars

\* a list of a document with an embedding and one without was added: the
\* first is stored as the caller made it, the second with a generated vector
C26_Witness ==
  /\ calls[1].pc = "done"
  /\ calls[1].docs = <<3, 4>>
  /\ MapGet(store, "c") = 3
  /\ heap[3] = InitHeap[3]
  /\ MapGet(store, "a") = 4
  /\ heap[4].embedding = <<RampVector>>

\* C27: in every state reached by addDocuments calls each entry of the store
\* is keyed by the id of its document, which has an embedding, and no step
\* makes the number of stored documents smaller.
C27_StoreInvariant ==
  /\ [](\A i \in DOMAIN store.keys :
          /\ heap[store.vals[i]].id = store.keys[i]
          /\ heap[store.vals[i]].embedding # Undefined)
  /\ [](Len(store.vals) = Len(store.keys))
  /\ [][MapSize(store') >= MapSize(store)]_vars

\* three calls, one document each, have completed; the third replaced the
\* document of id a and the store still holds two documents
C27_Witness ==
  /\ calls[1].pc = "done"
  /\ calls[1].docs = <<1>>
  /\ store.keys = <<"a", "b">>
  /\ heap[4].embedding # Undefined
  /\ MapGet(store, "a") = 1

EntryKept(k) ==
  /\ MapHas(store, k)
  /\ MapGet(store', k) = MapGet(store, k)
  /\ heap'[MapGet(store, k)] = heap[MapGet(store, k)]

\* the entry of id k is, after the step, a whole document of the running call
EntryWritten(k) ==
  LET o == MapGet(store', k)
  IN /\ heap'[o].id = k
     /\ heap'[o].embedding # Undefined
     /\ \E p \in DOMAIN calls' : o \in Range(calls'[p].docs)

\* C15: a search that runs while an addDocuments call is suspended sees, for
\* each id, the document as it was before the call wrote it or as it is after:
\* every document a search can return at any moment is the stored document of
\* its id and carries its embedding, and every step of a call leaves each
\* entry as it was or replaces it by a document of the call with its embedding.
C15_SearchSeesWholeDocuments ==
  /\ [](\A q \in QueryEmbeddings, k \in 1..MaxTopK :
          LET r == similaritySearch(store, q, k)
          IN \A i \in DOMAIN r :
               /\ heap[r[i]].embedding # Undefined
               /\ MapHas(store, heap[r[i]].id)
               /\ MapGet(store, heap[r[i]].id) = r[i])
  /\ [](search.called =>
          \A i \in DOMAIN search.docs : heap[search.docs[i]].embedding # Undefined)
  /\ [][\A k \in Range(store'.keys) : EntryKept(k) \/ EntryWritten(k)]_vars

\* a search ran while a call was suspended at the embedding of document 4 and
\* returned the document stored under the id of document 4 before the call
C15_Witness ==
  /\ search.called
  /\ search.during
  /\ calls[1].pc = "await"
  /\ calls[1].docs[calls[1].i] = 4
  /\ search.docs = <<2, 1>>

----------------------------------------------------------------------------
(* Claims about two concurrent addDocuments calls, checked under           *)
(* SpecConcurrent.                                                         *)

\* the ids of the documents of a list
IdsOf(docs) == {heap[docs[i]].id : i \in DOMAIN docs}

\* the positions of its list that call p writes in the step
Written(p) ==
  IF calls[p].pc = "await" THEN calls[p].i .. (calls'[p].i - 1)
  ELSE 1 .. (calls'[p].i - 1)

\* the step's writes win: each id written in the step maps to the last
\* document the step wrote under it, which carries its embedding
LastWriterWins(p) ==
  \A j \in Written(p) :
    LET docs == calls'[p].docs
        last == CHOOSE m \in Written(p) :
                  /\ heap[docs[m]].id = heap[docs[j]].id
                  /\ \A n \in Written(p) :
                       heap[docs[n]].id = heap[docs[j]].id => n <= m
    IN /\ MapGet(store', heap[docs[j]].id) = docs[last]
       /\ heap'[docs[last]].embedding # Undefined

\* C16: two addDocuments calls that interleave at their awaits never corrupt
\* the store: ids stay unique; once both calls are complete the store holds
\* exactly the ids of the two lists, each mapped to one of the submitted
\* documents of that id with its embedding; the writes of every step win over
\* earlier writes of the same id; and no step removes an id from the store.
C16_ConcurrentAddsKeepStoreWhole ==
  /\ [](\A i, j \in DOMAIN store.keys : i # j => store.keys[i] # store.keys[j])
  /\ []((calls[1].pc = "done" /\ calls[2].pc = "done") =>
          LET both == calls[1].docs \o calls[2].docs
          IN /\ Range(store.keys) = IdsOf(both)
             /\ \A k \in IdsOf(both) :
                  /\ MapGet(store, k) \in {o \in Range(both) : heap[o].id = k}
                  /\ heap[MapGet(store, k)].embedding # Undefined)
  /\ [][\A p \in {1, 2} : calls'[p] # calls[p] => LastWriterWins(p)]_vars
  /\ [][Range(store.keys) \subseteq Range(store'.keys)]_vars

\* call 1 began first and was suspended at document 4; call 2 wrote document 1
\* under the same id meanwhile; call 1 completed last and its document stays
C16_Witness ==
  /\ calls[1].pc = "done"
  /\ calls[2].pc = "done"
  /\ calls[1].docs = <<2, 4>>
  /\ calls[2].docs = <<1, 3>>
  /\ store.keys = <<"b", "a", "c">>
  /\ MapGet(store, "a") = 4

----------------------------------------------------------------------------
(* Claims about the reading operations, checked under SpecRead.            *)

\* C28: similaritySearch, retrieve and formatContext only read the store:
\* each of their steps leaves the keys, their order and every stored document
\* as they were, and a search that repeats the caller's previous search, or
\* the search a retrieve has just made, returns the same documents.
C28_ReadsLeaveStore ==
  /\ [][(search' # search \/ retr' # retr \/ fmt' # fmt) =>
          /\ store' = store
          /\ heap' = heap
          /\ calls' = calls]_vars
  /\ [][(search.called /\ search'.q = search.q /\ search'.topK = search.topK)
          => search'.docs = search.docs]_vars
  /\ [][(search' # search /\ retr.searched /\ search'.q = Head(retr.vectors)
            /\ search'.topK = retr.topK)
          => search'.docs = retr.docs]_vars
  /\ [](fmt.called => \A i \in DOMAIN fmt.documents :
                        \E o \in Stored(store) :
                          fmt.documents[i].content = <<heap[o].content>>)

\* on a store of two documents a search, a retrieve and a formatContext of the
\* retrieved documents have run
C28_Witness ==
  /\ store.keys = <<"a", "b">>
  /\ search.called
  /\ search.docs = <<1, 2>>
  /\ retr.pc = "done"
  /\ retr.docs = <<1, 2>>
  /\ fmt.called
  /\ fmt.out = <<"A1", Separator, "B1">>

----------------------------------------------------------------------------
(* Claims about the Retriever, checked under SpecRetriever.                *)

\* C8: retrieve fails whenever the embedding model throws or returns zero
\* vectors: it returns no document list and does not call similaritySearch.
C8_EmbeddingFailure ==
  (retr.pc = "done" /\ (retr.answer = "throws" \/ retr.vectors = <<>>))
    => (retr.outcome = "threw" /\ ~retr.searched)

----------------------------------------------------------------------------
(* Claims about formatContext, checked under SpecFormat.                   *)

\* the number of separators in a text
RECURSIVE Separators(_)
Separators(text) ==
  IF text = <<>> THEN 0
  ELSE (IF Head(text) = Separator THEN 1 ELSE 0) + Separators(Tail(text))

\* the contents of the first n documents, each after the first preceded by
\* the separator
RECURSIVE Joined(_, _)
Joined(documents, n) ==
  IF n = 0 THEN <<>>
  ELSE IF n = 1 THEN documents[1].content
  ELSE Joined(documents, n - 1) \o <<Separator>> \o documents[n].content

RECURSIVE SeparatorsWithin(_, _)
SeparatorsWithin(documents, n) ==
  IF n = 0 THEN 0
  ELSE SeparatorsWithin(documents, n - 1) + Separators(documents[n].content)

\* C13: formatContext gives the contents in input order joined by the
\* separator: the empty list gives the empty string and no other text, one
\* document gives its content alone, and n documents give n-1 separators
\* besides those the contents hold themselves.
C13_FormatContextJoins ==
  fmt.called =>
    LET n == Len(fmt.documents)
    IN /\ fmt.out = Joined(fmt.documents, n)
       /\ n = 0 => fmt.out = <<>>
       /\ n = 1 => fmt.out = fmt.documents[1].content
       /\ n >= 1 => Separators(fmt.out) =
                      (n - 1) + SeparatorsWithin(fmt.documents, n)

\* three documents with plain contents were joined by two separators
C13_Witness ==
  /\ fmt.called
  /\ Len(fmt.documents) = 3
  /\ fmt.out = <<"a", Separator, "b", Separator, "a", "b">>

----------------------------------------------------------------------------
(* Claims about the chat endpoint, checked under SpecChat.                 *)

Stages == <<"embedding", "retrieving", "generating">>

StagesUpTo(stage) ==
  CASE stage = "validation" -> <<>>
    [] stage = "embedding" -> SubSeq(Stages, 1, 1)
    [] stage = "retrieving" -> SubSeq(Stages, 1, 2)
    [] stage = "generating" -> Stages

HistoryOf(body) ==
  IF body.chatHistory.type = "array" THEN body.chatHistory.value ELSE <<>>

\* the places of the list msgs that hold the message m
Places(msgs, m) == {i \in DOMAIN msgs : msgs[i] = m}

\* C14: the LLM is called with the system prompt first, whose text ends with
\* the context built from the retrieved documents, then the chat history in
\* its order, then the new user message last; the new user message is added
\* once: the list holds it once more than the history does.
C14_MessageOrder ==
  chat.genCalls = 1 =>
    LET msgs == chat.messages
        history == HistoryOf(chat.body)
        new == [role |-> "user", content |-> chat.body.query]
    IN /\ Len(msgs) = Len(history) + 2
       /\ msgs[1].role = "system"
       /\ msgs[1].content.type = "string"
       /\ msgs[1].content.value = <<Instructions>> \o ChatContext(chat.docs)
       /\ \A i \in DOMAIN history : msgs[i + 1] = history[i]
       /\ msgs[Len(msgs)] = new
       /\ Cardinality(Places(msgs, new)) = Cardinality(Places(history, new)) + 1

\* the LLM was called for a request with a history of two messages and two
\* retrieved documents
C14_Witness ==
  /\ chat.stage = "generating"
  /\ chat.body.chatHistory = JsArray(<<UserMsg, AssistantMsg>>)
  /\ Len(chat.docs) = 2
  /\ Len(chat.messages) = 4

----------------------------------------------------------------------------
(* Claims about the collection endpoints, checked under SpecIngest.        *)

\* the ids of the documents in the batches before batch n (counted from 0)
IdsBeforeBatch(documents, n) ==
  {documents[i].id : i \in 1..Min(n * EMBEDDING_BATCH_SIZE, Len(documents))}

\* C9 as claimed: ingestion is not atomic: when the embedding of batch N
\* fails, the documents of the batches before N are in the store, and no
\* others.
C9_EarlierBatchesCommitted ==
  (ing.pc = "responded" /\ ing.failed = "embedding") =>
    Range(ing.vstore.keys) = IdsBeforeBatch(ing.allSdkDocuments, ing.batch)

\* C9 as amended: all batches are embedded before anything is stored: when
\* the embedding of a batch fails, no document of the request is in the store,
\* whatever batches were embedded before, and the request ends in a 500
\* response that carries the error message and no batch index.  The store
\* holds documents only once the request has succeeded.
C9_NothingStoredOnFailure ==
  /\ (ing.pc = "responded" /\ ing.failed = "embedding") =>
       /\ MapSize(ing.vstore) = 0
       /\ ing.response.code = 500
       /\ DOMAIN ing.response.body = {"status", "message"}
  /\ MapSize(ing.vstore) > 0 =>
       (ing.pc = "responded" /\ ing.response.code = 200)

\* the embedding of the second batch failed after the first batch was embedded
C9_Witness ==
  /\ ing.pc = "responded"
  /\ ing.failed = "embedding"
  /\ ing.batch = 1
  /\ Len(ing.documentsWithEmbeddings) = EMBEDDING_BATCH_SIZE
  /\ Len(ing.allSdkDocuments) > EMBEDDING_BATCH_SIZE

\* the ids of the chunks produced from the URLs of the request
ChunkIds == {ing.allSdkDocuments[i].id : i \in DOMAIN ing.allSdkDocuments}

\* C21: when a reset reports success, the collection holds the chunks produced
\* from the URLs of the request and none of the documents it held before the
\* reset, also when dropping the old collection raised an error.
C21_ResetClearsCollection ==
  (ing.op = "reset" /\ ing.pc = "responded" /\ ing.response.code = 200) =>
    /\ Range(ing.vstore.keys) = ChunkIds
    /\ ~ing.db.old

\* C22: in a reset the collection is deleted after the URLs were fetched and
\* chunked and the chunks embedded: every drop comes after every fetch and
\* every embedding of the request and after at least one embedding, so a
\* reset that fails in fetching or embedding has not dropped the collection.
C22_ResetDropsAfterEmbedding ==
  ing.op = "reset" =>
    /\ \A i \in DOMAIN ing.steps :
         ing.steps[i] = "drop" =>
           /\ \E j \in 1..(i - 1) : ing.steps[j] = "embed"
           /\ \A j \in DOMAIN ing.steps :
                ing.steps[j] \in {"fetch", "embed"} => j < i
    /\ ing.failed \in {"fetch", "content", "embedding"} =>
         \A i \in DOMAIN ing.steps : ing.steps[i] # "drop"

\* C24: documentsProcessed of a success response is the number of documents
\* the store holds from the request, also for a list that names a URL twice.
C24_DocumentsProcessedCountsStored ==
  (ing.pc = "responded" /\ ing.response.code = 200) =>
    ing.response.body.documentsProcessed = MapSize(ing.vstore)

\* the context of the system prompt handed to the LLM: what follows the
\* instructions
ContextOf(messages) == Tail(messages[1].content.value)

\* C25: when the retrieval returns no document the context of the system
\* prompt is exactly the sentinel 'No relevant documents found in the
\* knowledge base.'; when it returns documents the context is their formatted
\* contents (URL, blank line, content) joined by the separator, and the
\* sentinel is not in it.
C25_NoContextSentinel ==
  chat.messages # <<>> =>
    LET context == ContextOf(chat.messages)
        n == Len(chat.docs)
    IN IF n = 0 THEN context = <<Sentinel>>
       ELSE /\ Len(context) = 4 * n - 1
            /\ \A i \in 1..n :
                 /\ context[4 * i - 3] = chat.docs[i].metadata.url
                 /\ context[4 * i - 2] = "\n\n"
                 /\ context[4 * i - 1] = chat.docs[i].content
                 /\ i < n => context[4 * i] = Separator
            /\ Sentinel \notin Range(context)

\* the search of a request returned no document and the LLM was called
C25_Witness ==
  /\ chat.stage = "generating"
  /\ chat.trace = Stages
  /\ chat.docs = <<>>
  /\ chat.messages # <<>>

\* C30: chunkText with chunkSize > chunkOverlap >= 0 returns
\* ceil(length / (chunkSize - chunkOverlap)) chunks, none for the empty text;
\* chunk i is the non-empty substring that starts at
\* i * (chunkSize - chunkOverlap) and is at most chunkSize long, has
\* chunk_index i and the id doc_<url>_<i>; every character of the text is in
\* a chunk and the ids of the chunks differ.
C30_ChunkText ==
  chunks.called =>
    LET text == chunks.text
        out == chunks.out
        step == chunks.chunkSize - chunks.chunkOverlap
    IN /\ Len(out) = (Len(text) + step - 1) \div step
       /\ text = <<>> => out = <<>>
       /\ \A i \in 0..(Len(out) - 1) :
            LET c == out[i + 1]
            IN /\ c.content # <<>>
               /\ Len(c.content) <= chunks.chunkSize
               /\ c.content = SubSeq(text, i * step + 1,
                                     Min(i * step + chunks.chunkSize, Len(text)))
               /\ c.metadata = [url |-> chunks.url, chunk_index |-> i]
               /\ c.id = <<"doc_", chunks.url, "_", i>>
       /\ \A ch \in Range(text) : \E j \in DOMAIN out : ch \in Range(out[j].content)
       /\ \A j, k \in DOMAIN out : j # k => out[j].id # out[k].id

\* a text of seven characters was cut into chunks of three with an overlap of
\* one: four chunks, the last of one character
C30_Witness ==
  /\ chunks.called
  /\ Len(chunks.text) = 7
  /\ chunks.chunkSize = 3
  /\ chunks.chunkOverlap = 1
  /\ Len(chunks.out) = 4
  /\ chunks.out[4].content = <<7>>

----------------------------------------------------------------------------
(* Claims about both routers of the Express server, checked under          *)
(* SpecApiFair.                                                            *)

\* a chat body the API documentation calls a bad request
BadChatInput(body) ==
  \/ body.query.type # "string"
  \/ body.query.value = <<>>
  \/ body.collectionName.type \notin {"undefined", "string"}
  \/ body.chatHistory.type \notin {"undefined", "array"}
  \/ /\ body.chatHistory.type = "array"
     /\ \E msg \in Range(body.chatHistory.value) :
          msg.role \notin {"user", "assistant"} \/ msg.content.type # "string"

\* a collection body the API documentation calls a bad request
BadCollectionInput(body) ==
  \/ body.urls.type \notin {"undefined", "array"}
  \/ /\ body.urls.type = "array"
     /\ \E u \in Range(body.urls.value) : u.type # "string"
  \/ body.collectionName.type \notin {"undefined", "string"}

\* the response of a chat request fits what happened to it
ChatResponseFits ==
  /\ chat.stage = "responded" <=> chat.response # NoResponse
  /\ chat.stage = "responded" =>
       /\ chat.response.code \in {200, 400, 500}
       /\ chat.response.code = 400 <=> BadChatInput(chat.body)
       /\ chat.response.code = 400 =>
            chat.trace = <<>> /\ chat.embedCalls = 0 /\ chat.genCalls = 0
       /\ chat.response.code = 200 <=>
            (chat.trace = Stages /\ chat.failed = "none")
       /\ chat.response.code = 500 <=>
            chat.failed \in {"embedding", "retrieving", "generating"}

\* the response of a collection request fits what happened to it
CollectionResponseFits ==
  /\ ing.pc = "responded" <=> ing.response # NoResponse
  /\ ing.pc = "responded" =>
       /\ ing.response.code \in {200, 400, 500}
       /\ ing.response.code = 400 =>
            ing.steps = <<>> /\ ing.urls = <<>> /\ ing.vstore = EmptyMap
       /\ ing.response.code = 200 <=>
            (ing.failed = "none" /\ ing.steps # <<>>
             /\ ing.steps[Len(ing.steps)] = "add")
       /\ ing.response.code = 500 <=>
            ing.failed \in {"urls", "create", "fetch", "content", "embedding"}

\* a collection request is answered with 400 exactly for a bad body, and a
\* response, once sent, stays as it is until the next request
OneResponse ==
  /\ \A operation \in Operations, body \in CollectionBodies,
        configUrls \in ConfigUrls, exists \in BOOLEAN :
        IngestRequest(operation, body, configUrls, exists) =>
          (BadCollectionInput(body) <=> ing'.response.code = 400)
  /\ chat.response # NoResponse => chat' \in {chat, NoChat}
  /\ ing.response # NoResponse => ing' \in {ing, NoIngest}

\* C23: every request to POST /api/chat and POST /api/collection/<operation>
\* gets exactly one response: 400 when the validation of the input fails, and
\* then the processing logic is not invoked, 200 when the processing returns,
\* 500 when it throws.
C23_OneResponsePerRequest ==
  /\ [](ChatResponseFits /\ CollectionResponseFits)
  /\ [][OneResponse]_vars
  /\ (chat.stage \notin {"idle", "responded"}) ~> (chat.stage = "responded")
  /\ (ing.pc \notin {"idle", "responded"}) ~> (ing.pc = "responded")

\* a request with a malformed chat history was refused, after requests that
\* were processed
C23_Witness ==
  /\ chat.stage = "responded"
  /\ chat.response.code = 400
  /\ chat.body.query = JsString(<<"question">>)
  /\ chat.body.chatHistory = JsArray(<<SystemMsg>>)

----------------------------------------------------------------------------
(* Claims about the route of the web example, checked under SpecWeb.       *)

\* C11: a request never reports success after one of its stages failed: when
\* the embedding of the query or the retrieval of the context failed, the
\* language model is not called and the response is an error, not a stream.
C11_NoSuccessAfterFailedStage ==
  web.caught =>
    /\ web.genCalls = 0
    /\ web.response.status >= 400

----------------------------------------------------------------------------
(* Claims about generateStream, checked under SpecStream.                  *)

\* C17: the consumer receives the chunks in their order, at most all of them,
\* and a generator that was not stopped has delivered them all when it
\* completes; the generator runs only while a next() is pending, so nothing is
\* produced ahead of the consumer; once the consumer has stopped (return())
\* having asked for k fragments, it never holds more than k, and when the
\* return() is served the generator is completed with exactly those.
C17_StreamIsLazyAndFinite ==
  /\ [](stream.out = SubSeq(dummyResponseChunks, 1, stream.index))
  /\ [](stream.index <= Len(dummyResponseChunks))
  /\ []((stream.state = "completed" /\ ~stream.stopped) =>
          stream.out = dummyResponseChunks)
  /\ [](stream.state = "executing" =>
          (stream.queue # <<>> /\ Head(stream.queue) = "next"))
  /\ [](stream.stopped =>
          /\ Len(stream.out) <= stream.stoppedAt
          /\ \/ \E i \in DOMAIN stream.queue : stream.queue[i] = "return"
             \/ /\ stream.state = "completed"
                /\ Len(stream.out) =
                     Min(stream.stoppedAt, Len(dummyResponseChunks)))
  /\ [][stream.state = "completed" =>
          (stream'.state = "completed" /\ stream'.out = stream.out)]_vars

\* the consumer stopped after the third fragment
C17_Witness ==
  /\ stream.stopped
  /\ stream.stoppedAt = 3
  /\ stream.out = <<"This ", "is ", "a ">>
  /\ stream.state = "completed"

----------------------------------------------------------------------------
(* Claims about the embedding adapter, checked under SpecAdapter.          *)

\* the concatenation of a list of batches
RECURSIVE Flatten(_)
Flatten(batches) ==
  IF batches = <<>> THEN <<>> ELSE Head(batches) \o Flatten(Tail(batches))

\* C18: a call that returns gives one vector per text, the i-th the embedding
\* of the i-th text; the texts are requested in consecutive batches of at
\* most BATCH_SIZE, all but the last full; a call that fails gives the caller
\* no vectors, has requested no batch after the failed one, and requests
\* none afterwards.
C18_AdapterAllOrNothing ==
  /\ [](adapter.pc = "returned" =>
          /\ Len(adapter.result) = Len(adapter.texts)
          /\ \A i \in DOMAIN adapter.texts :
               adapter.result[i].embeddingOf = ReplaceNewlines(adapter.texts[i]))
  /\ [](\A b \in DOMAIN adapter.requests :
          /\ Len(adapter.requests[b]) \in 1..BATCH_SIZE
          /\ b < Len(adapter.requests) => Len(adapter.requests[b]) = BATCH_SIZE)
  /\ [](LET sent == Flatten(adapter.requests)
        IN /\ Len(sent) <= Len(adapter.texts)
           /\ \A i \in DOMAIN sent : sent[i] = ReplaceNewlines(adapter.texts[i])
           /\ adapter.pc = "returned" => Len(sent) = Len(adapter.texts))
  /\ [](adapter.pc # "returned" => adapter.result = <<>>)
  /\ [](adapter.pc = "threw" =>
          Len(adapter.allEmbeddings) = (Len(adapter.requests) - 1) * BATCH_SIZE)
  /\ [][adapter.pc = "threw" =>
          (adapter'.pc = "idle" /\ adapter'.requests = <<>>)]_vars

\* the second of three batches failed after the first had been embedded
C18_Witness ==
  /\ adapter.pc = "threw"
  /\ Len(adapter.texts) = 5
  /\ Len(adapter.requests) = 2
  /\ Len(adapter.allEmbeddings) = BATCH_SIZE
  /\ adapter.result = <<>>

\* C19: within one request the embedding API is called at most once and the
\* language model at most once: a failed call is not issued again, so a
\* stream that ended in an error made one call of the model.
C19_NoRetries ==
  /\ web.embedCalls <= 1
  /\ web.genCalls <= 1
  /\ web.streamed = "error" => web.genCalls = 1

====
